---- MODULE Spec2Model ----
(***************************************************************************)
(* aws_codedeploy_deployment_config: the create / read / delete callbacks  *)
(* of internal/service/deploy/deployment_config.go and the expand/flatten  *)
(* mapping between the resource's attribute tree and the CodeDeploy API    *)
(* types.                                                                  *)
(*                                                                         *)
(* Representation of Go values:                                            *)
(*   - a pointer is a sequence of length 0 (nil) or 1 (the pointee);       *)
(*   - a struct is a record with the Go field names;                       *)
(*   - a []map[string]interface{} built by a flatten function is a record  *)
(*     [panic, isNil, items]: isNil tells a nil slice from an empty one,   *)
(*     panic tells that the function did not return (nil dereference);     *)
(*   - a list attribute held by schema.ResourceData is a plain sequence    *)
(*     (ResourceData keeps no nil/empty distinction).                     *)
(***************************************************************************)
EXTENDS Integers, Sequences, FiniteSets, TLC

VARIABLES d, remote, calls, op, diags,
          mapX, mapY, mapF, mapR, mapPc

vars == <<d, remote, calls, op, diags, mapX, mapY, mapF, mapR, mapPc>>
lifecycleVars == <<d, remote, calls, op, diags>>
mapVars == <<mapX, mapY, mapF, mapR, mapPc>>

----------------------------------------------------------------------------
(* Bounds of the model *)

MaxValue == 1

(* Largest value of int32, the width of the API's integer fields *)
MaxInt32 == 2147483647

Names == {"blue", "green"}

Vals == (0..MaxValue) \cup {MaxInt32}
Percents == 0..MaxValue
Durations == 0..MaxValue

----------------------------------------------------------------------------
(* Go values *)

Nil == <<>>
Ptr(v) == <<v>>
Deref(p) == p[1]

NilSlice == [panic |-> FALSE, isNil |-> TRUE, items |-> <<>>]
EmptySlice == [panic |-> FALSE, isNil |-> FALSE, items |-> <<>>]
Append1(result, item) == [panic |-> FALSE, isNil |-> FALSE, items |-> Append(result.items, item)]
NilDereference == [panic |-> TRUE, isNil |-> TRUE, items |-> <<>>]

(* int32(v) of a Go int: values up to MaxInt32 are kept, larger ones wrap    *)
(* around by 2^32.                                                          *)
ToInt32(v) == IF v > MaxInt32 THEN v - MaxInt32 - MaxInt32 - 2 ELSE v

(* d.GetOk on a list attribute: set and not the zero value (the empty list) *)
GetOk(list) == Len(list) > 0

----------------------------------------------------------------------------
(* Schema *)

ComputePlatformDefault == "Server"
MinimumHealthyHostsTypes == {"HOST_COUNT", "FLEET_PERCENT"}
TrafficRoutingTypes == {"TimeBasedCanary", "TimeBasedLinear", "AllAtOnce"}
MinimumHealthyHostsPerZoneTypes == {"HOST_COUNT", "FLEET_PERCENT"}

(* The schema without the two ConflictsWith entries *)
ConflictsWithMissing(cfg) == TRUE

(* ConflictsWith of time_based_canary and of time_based_linear *)
ConflictsWithOk(cfg) ==
    \A i \in 1..Len(cfg.traffic_routing_config) :
        ~(Len(cfg.traffic_routing_config[i].time_based_canary) > 0
          /\ Len(cfg.traffic_routing_config[i].time_based_linear) > 0)

(* MaxItems: 1 of every nested block *)
MaxItemsOk(cfg) ==
    /\ Len(cfg.minimum_healthy_hosts) <= 1
    /\ Len(cfg.traffic_routing_config) <= 1
    /\ Len(cfg.zonal_config) <= 1
    /\ \A i \in 1..Len(cfg.traffic_routing_config) :
           /\ Len(cfg.traffic_routing_config[i].time_based_canary) <= 1
           /\ Len(cfg.traffic_routing_config[i].time_based_linear) <= 1
    /\ \A i \in 1..Len(cfg.zonal_config) :
           Len(cfg.zonal_config[i].minimum_healthy_hosts_per_zone) <= 1

(* What the host checks against resourceDeploymentConfig's schema before it *)
(* calls any callback.                                                      *)
resourceDeploymentConfig(cfg) == MaxItemsOk(cfg) /\ ConflictsWithOk(cfg)

----------------------------------------------------------------------------
(* expand: attribute tree -> API request types *)

expandMinimumHealthyHosts(dd) ==
    IF ~GetOk(dd.minimum_healthy_hosts) THEN Nil
    ELSE LET host == dd.minimum_healthy_hosts[1]
         IN Ptr([Type |-> host.type, Value |-> ToInt32(host.value)])

expandTimeBasedCanary(config) ==
    Ptr([CanaryInterval |-> ToInt32(config.interval),
         CanaryPercentage |-> ToInt32(config.percentage)])

expandTimeBasedLinear(config) ==
    Ptr([LinearInterval |-> ToInt32(config.interval),
         LinearPercentage |-> ToInt32(config.percentage)])

expandTrafficRoutingConfig(dd) ==
    IF ~GetOk(dd.traffic_routing_config) THEN Nil
    ELSE LET config == dd.traffic_routing_config[1]
         IN Ptr([Type |-> config.type,
                 TimeBasedCanary |->
                     IF Len(config.time_based_canary) > 0
                     THEN expandTimeBasedCanary(config.time_based_canary[1])
                     ELSE Nil,
                 TimeBasedLinear |->
                     IF Len(config.time_based_linear) > 0
                     THEN expandTimeBasedLinear(config.time_based_linear[1])
                     ELSE Nil])

expandMinimumHealthyHostsPerZone(config) ==
    Ptr([Type |-> config.type, Value |-> ToInt32(config.value)])

(* config["..."].(int) succeeds for every block read from ResourceData: an  *)
(* unset integer attribute reads as 0, so both durations are always set.    *)
expandZonalConfig(dd) ==
    IF ~GetOk(dd.zonal_config) THEN Nil
    ELSE LET config == dd.zonal_config[1]
         IN Ptr([FirstZoneMonitorDurationInSeconds |->
                     Ptr(config.first_zone_monitor_duration_in_seconds),
                 MinimumHealthyHostsPerZone |->
                     IF Len(config.minimum_healthy_hosts_per_zone) > 0
                     THEN expandMinimumHealthyHostsPerZone(
                              config.minimum_healthy_hosts_per_zone[1])
                     ELSE Nil,
                 MonitorDurationInSeconds |->
                     Ptr(config.monitor_duration_in_seconds)])

----------------------------------------------------------------------------
(* flatten: API response types -> []map[string]interface{} *)

flattenMinimumHealthHosts(hosts) ==
    IF hosts = Nil THEN EmptySlice
    ELSE Append1(EmptySlice, [type |-> Deref(hosts).Type, value |-> Deref(hosts).Value])

flattenTimeBasedCanary(canary) ==
    IF canary = Nil THEN EmptySlice
    ELSE Append1(EmptySlice, [interval |-> Deref(canary).CanaryInterval,
                              percentage |-> Deref(canary).CanaryPercentage])

flattenTimeBasedLinear(linear) ==
    IF linear = Nil THEN EmptySlice
    ELSE Append1(EmptySlice, [interval |-> Deref(linear).LinearInterval,
                              percentage |-> Deref(linear).LinearPercentage])

flattenTrafficRoutingConfig(config) ==
    IF config = Nil THEN EmptySlice
    ELSE Append1(EmptySlice,
                 [type |-> Deref(config).Type,
                  time_based_canary |-> flattenTimeBasedCanary(Deref(config).TimeBasedCanary),
                  time_based_linear |-> flattenTimeBasedLinear(Deref(config).TimeBasedLinear)])

(* The per-zone flatten returning its empty result, like the other flattens *)
flattenMinimumHealthHostsPerZoneEmpty(config) ==
    IF config = Nil THEN EmptySlice
    ELSE Append1(EmptySlice, [type |-> Deref(config).Type, value |-> Deref(config).Value])

flattenMinimumHealthHostsPerZone(config) ==
    IF config = Nil THEN NilSlice
    ELSE Append1(EmptySlice, [type |-> Deref(config).Type, value |-> Deref(config).Value])

(* *config.FirstZoneMonitorDurationInSeconds and                            *)
(* *config.MonitorDurationInSeconds are dereferenced with no nil check.     *)
flattenZonalConfig(config) ==
    IF config = Nil THEN NilSlice
    ELSE IF Deref(config).FirstZoneMonitorDurationInSeconds = Nil THEN NilDereference
    ELSE IF Deref(config).MonitorDurationInSeconds = Nil THEN NilDereference
    ELSE Append1(EmptySlice,
                 [first_zone_monitor_duration_in_seconds |->
                      Deref(Deref(config).FirstZoneMonitorDurationInSeconds),
                  minimum_healthy_hosts_per_zone |->
                      flattenMinimumHealthHostsPerZone(Deref(config).MinimumHealthyHostsPerZone),
                  monitor_duration_in_seconds |->
                      Deref(Deref(config).MonitorDurationInSeconds)])

----------------------------------------------------------------------------
(* d.Set of a flattened block: ResourceData stores a list, nil or empty     *)
(* slices both as the empty list, nested blocks likewise.                   *)

setMinimumHealthyHosts(slice) == slice.items

setTrafficRoutingConfig(slice) ==
    [i \in 1..Len(slice.items) |->
        [type |-> slice.items[i].type,
         time_based_canary |-> slice.items[i].time_based_canary.items,
         time_based_linear |-> slice.items[i].time_based_linear.items]]

setZonalConfig(slice) ==
    [i \in 1..Len(slice.items) |->
        [first_zone_monitor_duration_in_seconds |->
             slice.items[i].first_zone_monitor_duration_in_seconds,
         minimum_healthy_hosts_per_zone |->
             slice.items[i].minimum_healthy_hosts_per_zone.items,
         monitor_duration_in_seconds |->
             slice.items[i].monitor_duration_in_seconds]]

----------------------------------------------------------------------------
(* The CodeDeploy service, as the three calls the resource issues.  remote  *)
(* maps a deployment config name to a pointer to its DeploymentConfigInfo.  *)
(* fault is the environment's choice for one call.                          *)

(* The deployment config id the service assigns *)
ConfigIdOf == [blue |-> "id-blue", green |-> "id-green"]
IdOf(name) == ConfigIdOf[name]

Lookup(rem, name) == IF name \in DOMAIN rem THEN rem[name] ELSE Nil

CreateFaults == {"none", "error"}
GetFaults == {"none", "error", "empty", "stale"}
DeleteFaults == {"none", "error"}

CreateDeploymentConfig(rem, input, fault) ==
    IF fault = "error" THEN [err |-> "ServiceError", remote |-> rem]
    ELSE IF Lookup(rem, input.DeploymentConfigName) # Nil
    THEN [err |-> "DeploymentConfigAlreadyExistsException", remote |-> rem]
    ELSE [err |-> "",
          remote |-> [rem EXCEPT ![input.DeploymentConfigName] =
              Ptr([ComputePlatform |-> input.ComputePlatform,
                   DeploymentConfigId |-> IdOf(input.DeploymentConfigName),
                   DeploymentConfigName |-> input.DeploymentConfigName,
                   MinimumHealthyHosts |-> input.MinimumHealthyHosts,
                   TrafficRoutingConfig |-> input.TrafficRoutingConfig,
                   ZonalConfig |-> input.ZonalConfig])]]

(* "stale": the service does not see the object yet (or no longer);         *)
(* "empty": a response without DeploymentConfigInfo.                        *)
GetDeploymentConfig(rem, name, fault) ==
    IF fault = "error" THEN [err |-> "ServiceError", output |-> Nil]
    ELSE IF fault = "empty" THEN [err |-> "", output |-> Nil]
    ELSE IF fault = "stale" \/ Lookup(rem, name) = Nil
    THEN [err |-> "DeploymentConfigDoesNotExistException", output |-> Nil]
    ELSE [err |-> "", output |-> Lookup(rem, name)]

DeleteDeploymentConfig(rem, name, fault) ==
    IF fault = "error" THEN [err |-> "ServiceError", remote |-> rem]
    ELSE IF Lookup(rem, name) = Nil
    THEN [err |-> "DeploymentConfigDoesNotExistException", remote |-> rem]
    ELSE [err |-> "", remote |-> [rem EXCEPT ![name] = Nil]]

(* One call as the resource issued it, with the error the service answered *)
Call(api, name, input, err) == [api |-> api, name |-> name, input |-> input, err |-> err]

----------------------------------------------------------------------------
(* Diagnostics *)

NoDiags == <<>>
AppendErrorf(diagnostics, operation, name, err) ==
    Append(diagnostics, [severity |-> "error", operation |-> operation,
                         name |-> name, cause |-> err])
HasError(diagnostics) == \E i \in 1..Len(diagnostics) : diagnostics[i].severity = "error"

(* tfresource.NotFound: a retry.NotFoundError, which an empty-result error  *)
(* also counts as.                                                          *)
NotFound(err) == err \in {"NotFoundError", "EmptyResultError"}

----------------------------------------------------------------------------
(* The callbacks.  Each returns the ResourceData it leaves, the service's   *)
(* state, the calls it issued, its diagnostics and whether it panicked.     *)

findDeploymentConfigByName(rem, name, fault) ==
    LET resp == GetDeploymentConfig(rem, name, fault)
        getCall == <<Call("get", name, Nil, resp.err)>>
    IN  IF resp.err = "DeploymentConfigDoesNotExistException"
        THEN [info |-> Nil, err |-> "NotFoundError", calls |-> getCall]
        ELSE IF resp.err # "" THEN [info |-> Nil, err |-> resp.err, calls |-> getCall]
        ELSE IF resp.output = Nil
        THEN [info |-> Nil, err |-> "EmptyResultError", calls |-> getCall]
        ELSE [info |-> resp.output, err |-> "", calls |-> getCall]

(* SetId that takes no effect *)
SetIdDropped(dd, v) == dd

(* d.SetId *)
SetId(dd, v) == [dd EXCEPT !.id = v]

(* The d.Set calls of a read that found the object, up to the one of        *)
(* zonal_config, and all of them.                                           *)
SetFieldsBeforeZonal(dd, info) ==
    [dd EXCEPT !.compute_platform = info.ComputePlatform,
               !.deployment_config_id = info.DeploymentConfigId,
               !.deployment_config_name = info.DeploymentConfigName,
               !.minimum_healthy_hosts =
                   setMinimumHealthyHosts(flattenMinimumHealthHosts(info.MinimumHealthyHosts)),
               !.traffic_routing_config =
                   setTrafficRoutingConfig(flattenTrafficRoutingConfig(info.TrafficRoutingConfig))]

(* An incremental merge: a block the fetched object lacks is left alone *)
SetFieldsMerge(dd, info) ==
    [dd EXCEPT !.compute_platform = info.ComputePlatform,
               !.deployment_config_id = info.DeploymentConfigId,
               !.deployment_config_name = info.DeploymentConfigName,
               !.minimum_healthy_hosts =
                   IF info.MinimumHealthyHosts = Nil THEN @
                   ELSE setMinimumHealthyHosts(
                            flattenMinimumHealthHosts(info.MinimumHealthyHosts)),
               !.traffic_routing_config =
                   IF info.TrafficRoutingConfig = Nil THEN @
                   ELSE setTrafficRoutingConfig(
                            flattenTrafficRoutingConfig(info.TrafficRoutingConfig)),
               !.zonal_config =
                   IF info.ZonalConfig = Nil THEN @
                   ELSE setZonalConfig(flattenZonalConfig(info.ZonalConfig))]

SetFields(dd, info) ==
    [SetFieldsBeforeZonal(dd, info) EXCEPT
               !.zonal_config = setZonalConfig(flattenZonalConfig(info.ZonalConfig))]

(* A read without the IsNewResource test: not-found always clears the id *)
resourceDeploymentConfigReadAlwaysClears(dd, rem, fault) ==
    LET found == findDeploymentConfigByName(rem, dd.id, fault)
    IN  IF NotFound(found.err)
        THEN [d |-> SetId(dd, ""), remote |-> rem, calls |-> found.calls,
              diags |-> NoDiags, panic |-> FALSE, fetched |-> Nil]
        ELSE IF found.err # ""
        THEN [d |-> dd, remote |-> rem, calls |-> found.calls,
              diags |-> AppendErrorf(NoDiags, "reading", dd.id, found.err),
              panic |-> FALSE, fetched |-> Nil]
        ELSE IF flattenZonalConfig(Deref(found.info).ZonalConfig).panic
        THEN [d |-> SetFieldsBeforeZonal(dd, Deref(found.info)), remote |-> rem,
              calls |-> found.calls, diags |-> NoDiags, panic |-> TRUE,
              fetched |-> found.info]
        ELSE [d |-> SetFields(dd, Deref(found.info)), remote |-> rem, calls |-> found.calls,
              diags |-> NoDiags, panic |-> FALSE, fetched |-> found.info]

(* A read that treats every error of a refresh as the object being gone *)
resourceDeploymentConfigReadClearsOnError(dd, rem, fault) ==
    LET found == findDeploymentConfigByName(rem, dd.id, fault)
    IN  IF found.err # ""
        THEN [d |-> SetId(dd, ""), remote |-> rem, calls |-> found.calls,
              diags |-> AppendErrorf(NoDiags, "reading", dd.id, found.err),
              panic |-> FALSE, fetched |-> Nil]
        ELSE IF flattenZonalConfig(Deref(found.info).ZonalConfig).panic
        THEN [d |-> SetFieldsBeforeZonal(dd, Deref(found.info)), remote |-> rem,
              calls |-> found.calls, diags |-> NoDiags, panic |-> TRUE,
              fetched |-> found.info]
        ELSE [d |-> SetFields(dd, Deref(found.info)), remote |-> rem, calls |-> found.calls,
              diags |-> NoDiags, panic |-> FALSE, fetched |-> found.info]

resourceDeploymentConfigRead(dd, rem, fault) ==
    LET found == findDeploymentConfigByName(rem, dd.id, fault)
        getCall == found.calls
    IN  IF ~dd.isNew /\ NotFound(found.err)
        THEN [d |-> SetId(dd, ""), remote |-> rem, calls |-> getCall,
              diags |-> NoDiags, panic |-> FALSE, fetched |-> Nil]
        ELSE IF found.err # ""
        THEN [d |-> dd, remote |-> rem, calls |-> getCall,
              diags |-> AppendErrorf(NoDiags, "reading", dd.id, found.err),
              panic |-> FALSE, fetched |-> Nil]
        ELSE IF flattenZonalConfig(Deref(found.info).ZonalConfig).panic
        THEN [d |-> SetFieldsBeforeZonal(dd, Deref(found.info)), remote |-> rem,
              calls |-> getCall, diags |-> NoDiags, panic |-> TRUE,
              fetched |-> found.info]
        ELSE [d |-> SetFields(dd, Deref(found.info)), remote |-> rem, calls |-> getCall,
              diags |-> NoDiags, panic |-> FALSE, fetched |-> found.info]

CreateDeploymentConfigInput(dd, name) ==
    [ComputePlatform |-> dd.compute_platform,
     DeploymentConfigName |-> name,
     MinimumHealthyHosts |-> expandMinimumHealthyHosts(dd),
     TrafficRoutingConfig |-> expandTrafficRoutingConfig(dd),
     ZonalConfig |-> expandZonalConfig(dd)]

(* A create that adopts the name as id before it knows the call succeeded *)
resourceDeploymentConfigCreateSetsIdFirst(dd, rem, cfault, gfault) ==
    LET name == dd.deployment_config_name
        input == CreateDeploymentConfigInput(dd, name)
        created == CreateDeploymentConfig(rem, input, cfault)
        createCall == <<Call("create", name, Ptr(input), created.err)>>
    IN  IF created.err # ""
        THEN [d |-> SetId(dd, name), remote |-> rem, calls |-> createCall,
              diags |-> AppendErrorf(NoDiags, "creating", name, created.err),
              panic |-> FALSE, fetched |-> Nil]
        ELSE LET rd == resourceDeploymentConfigRead(SetId(dd, name), created.remote, gfault)
             IN  [rd EXCEPT !.calls = createCall \o rd.calls]

resourceDeploymentConfigCreate(dd, rem, cfault, gfault) ==
    LET name == dd.deployment_config_name
        input == CreateDeploymentConfigInput(dd, name)
        created == CreateDeploymentConfig(rem, input, cfault)
        createCall == <<Call("create", name, Ptr(input), created.err)>>
    IN  IF created.err # ""
        THEN [d |-> dd, remote |-> rem, calls |-> createCall,
              diags |-> AppendErrorf(NoDiags, "creating", name, created.err),
              panic |-> FALSE, fetched |-> Nil]
        ELSE LET rd == resourceDeploymentConfigRead(SetId(dd, name), created.remote, gfault)
             IN  [rd EXCEPT !.calls = createCall \o rd.calls]

(* A delete that takes an object already gone for a success *)
resourceDeploymentConfigDeleteIgnoresNotFound(dd, rem, fault) ==
    LET deleted == DeleteDeploymentConfig(rem, dd.id, fault)
        deleteCall == <<Call("delete", dd.id, Nil, deleted.err)>>
    IN  IF deleted.err # "" /\ deleted.err # "DeploymentConfigDoesNotExistException"
        THEN [d |-> dd, remote |-> rem, calls |-> deleteCall,
              diags |-> AppendErrorf(NoDiags, "deleting", dd.id, deleted.err),
              panic |-> FALSE, fetched |-> Nil]
        ELSE [d |-> dd, remote |-> deleted.remote, calls |-> deleteCall,
              diags |-> NoDiags, panic |-> FALSE, fetched |-> Nil]

resourceDeploymentConfigDelete(dd, rem, fault) ==
    LET deleted == DeleteDeploymentConfig(rem, dd.id, fault)
        deleteCall == <<Call("delete", dd.id, Nil, deleted.err)>>
    IN  IF deleted.err # ""
        THEN [d |-> dd, remote |-> rem, calls |-> deleteCall,
              diags |-> AppendErrorf(NoDiags, "deleting", dd.id, deleted.err),
              panic |-> FALSE, fetched |-> Nil]
        ELSE [d |-> dd, remote |-> deleted.remote, calls |-> deleteCall,
              diags |-> NoDiags, panic |-> FALSE, fetched |-> Nil]

----------------------------------------------------------------------------
(* Configurations a user can write, and objects that exist in the service   *)
(* without this resource having created them.                               *)

NoBlock == <<>>

Config(name, platform, hosts, routing, zonal) ==
    [deployment_config_name |-> name, compute_platform |-> platform,
     minimum_healthy_hosts |-> hosts, traffic_routing_config |-> routing,
     zonal_config |-> zonal]

CanaryRouting(v) ==
    <<[type |-> "TimeBasedCanary",
       time_based_canary |-> <<[interval |-> v, percentage |-> v]>>,
       time_based_linear |-> NoBlock]>>
LinearRouting(v) ==
    <<[type |-> "TimeBasedLinear",
       time_based_canary |-> NoBlock,
       time_based_linear |-> <<[interval |-> v, percentage |-> v]>>]>>
BothRouting(v) ==
    <<[type |-> "TimeBasedCanary",
       time_based_canary |-> <<[interval |-> v, percentage |-> v]>>,
       time_based_linear |-> <<[interval |-> v, percentage |-> v]>>]>>
ZonalBlock(v, perZone) ==
    <<[first_zone_monitor_duration_in_seconds |-> v,
       minimum_healthy_hosts_per_zone |-> perZone,
       monitor_duration_in_seconds |-> 0]>>

PlanConfigs ==
    {Config(n, ComputePlatformDefault, NoBlock, NoBlock, NoBlock) : n \in Names}
    \cup {Config(n, "Server", <<[type |-> "HOST_COUNT", value |-> v]>>,
                 CanaryRouting(v), ZonalBlock(v, NoBlock)) :
              n \in Names, v \in 1..MaxValue}
    \cup {Config(n, "Lambda", NoBlock, LinearRouting(v),
                 ZonalBlock(v, <<[type |-> "FLEET_PERCENT", value |-> v]>>)) :
              n \in Names, v \in 1..MaxValue}
    \cup {Config(n, "Lambda", NoBlock, BothRouting(v), NoBlock) :
              n \in Names, v \in 1..MaxValue}

(* Objects other clients leave in the service: one with no optional block,  *)
(* one whose zonal config carries no monitor durations.                     *)
OutOfBandObjects(name) ==
    {[ComputePlatform |-> "ECS", DeploymentConfigId |-> IdOf(name),
      DeploymentConfigName |-> name, MinimumHealthyHosts |-> Nil,
      TrafficRoutingConfig |-> Nil, ZonalConfig |-> Nil],
     [ComputePlatform |-> "Server", DeploymentConfigId |-> IdOf(name),
      DeploymentConfigName |-> name,
      MinimumHealthyHosts |-> Ptr([Type |-> "FLEET_PERCENT", Value |-> 75]),
      TrafficRoutingConfig |-> Nil,
      ZonalConfig |-> Ptr([FirstZoneMonitorDurationInSeconds |-> Nil,
                           MinimumHealthyHostsPerZone |->
                               Ptr([Type |-> "HOST_COUNT", Value |-> 1]),
                           MonitorDurationInSeconds |-> Nil])]}

----------------------------------------------------------------------------
(* The host: it validates a configuration against the schema, builds the    *)
(* ResourceData of a callback and keeps what the callback leaves.           *)

NoData ==
    [id |-> "", isNew |-> FALSE, compute_platform |-> "", deployment_config_id |-> "",
     deployment_config_name |-> "", minimum_healthy_hosts |-> NoBlock,
     traffic_routing_config |-> NoBlock, zonal_config |-> NoBlock]

(* The ResourceData handed to create: no id yet, marked new, the            *)
(* configuration's values, the computed attribute unset.                    *)
NewData(cfg) ==
    [id |-> "", isNew |-> TRUE, compute_platform |-> cfg.compute_platform,
     deployment_config_id |-> "", deployment_config_name |-> cfg.deployment_config_name,
     minimum_healthy_hosts |-> cfg.minimum_healthy_hosts,
     traffic_routing_config |-> cfg.traffic_routing_config,
     zonal_config |-> cfg.zonal_config]

(* The ResourceData handed to read and delete is rebuilt from stored state  *)
StoredData(dd) == [dd EXCEPT !.isNew = FALSE]

(* schema.ImportStatePassthroughContext: the bare identifier becomes the id *)
ImportedData(id) == [NoData EXCEPT !.id = id]

(* What the last step was: the callback, the ResourceData it was handed,    *)
(* whether it panicked, and the object its get call returned.               *)
Op(name, prior, r) ==
    [name |-> name, prior |-> prior, panic |-> r.panic, fetched |-> r.fetched]
NoResult == [panic |-> FALSE, fetched |-> Nil]

Keep(r) ==
    /\ d' = IF r.panic THEN d ELSE r.d
    /\ remote' = r.remote
    /\ calls' = r.calls
    /\ diags' = r.diags

LifecycleInit ==
    /\ d = NoData
    /\ remote = [n \in Names |-> Nil]
    /\ calls = <<>>
    /\ diags = NoDiags
    /\ op = Op("init", NoData, NoResult)

NoConfig ==
    [minimum_healthy_hosts |-> NoBlock, traffic_routing_config |-> NoBlock,
     zonal_config |-> NoBlock]
NoObject == [MinimumHealthyHosts |-> Nil, TrafficRoutingConfig |-> Nil, ZonalConfig |-> Nil]
NoFlat ==
    [minimum_healthy_hosts |-> EmptySlice, traffic_routing_config |-> EmptySlice,
     zonal_config |-> EmptySlice]

MapIdle ==
    /\ mapPc = "idle"
    /\ mapX = NoConfig
    /\ mapY = NoObject
    /\ mapR = NoObject
    /\ mapF = NoFlat

Init == LifecycleInit /\ MapIdle

(* A configuration the schema accepts is planned for creation *)
Plan ==
    \E cfg \in PlanConfigs :
        /\ resourceDeploymentConfig(cfg)
        /\ d' = NewData(cfg)
        /\ calls' = <<>>
        /\ diags' = NoDiags
        /\ op' = Op("plan", d, NoResult)
        /\ UNCHANGED <<remote, mapVars>>

(* A configuration the schema rejects reaches no callback *)
Reject ==
    \E cfg \in PlanConfigs :
        /\ ~resourceDeploymentConfig(cfg)
        /\ calls' = <<>>
        /\ diags' = AppendErrorf(NoDiags, "validating", cfg.deployment_config_name,
                                 "ConflictsWith")
        /\ op' = Op("reject", d, NoResult)
        /\ UNCHANGED <<d, remote, mapVars>>

Import ==
    \E id \in Names :
        /\ d' = ImportedData(id)
        /\ calls' = <<>>
        /\ diags' = NoDiags
        /\ op' = Op("import", d, NoResult)
        /\ UNCHANGED <<remote, mapVars>>

Create ==
    /\ op.name = "plan"
    /\ \E cfault \in CreateFaults, gfault \in GetFaults :
        LET r == resourceDeploymentConfigCreate(d, remote, cfault, gfault)
        IN  /\ Keep(r)
            /\ op' = Op("create", d, r)
    /\ UNCHANGED mapVars

Read ==
    /\ d.id # ""
    /\ \E gfault \in GetFaults \ {"stale"} :
        LET r == resourceDeploymentConfigRead(StoredData(d), remote, gfault)
        IN  /\ Keep(r)
            /\ op' = Op("read", StoredData(d), r)
    /\ UNCHANGED mapVars

Delete ==
    /\ d.id # ""
    /\ \E dfault \in DeleteFaults :
        LET r == resourceDeploymentConfigDelete(StoredData(d), remote, dfault)
        IN  /\ Keep(r)
            /\ op' = Op("delete", StoredData(d), r)
    /\ UNCHANGED mapVars

(* Another client creates, replaces or deletes an object of the service *)
OutOfBandPut ==
    \E n \in Names : \E obj \in OutOfBandObjects(n) :
        /\ remote' = [remote EXCEPT ![n] = Ptr(obj)]
        /\ UNCHANGED <<d, calls, diags, op, mapVars>>

OutOfBandDelete ==
    \E n \in Names :
        /\ remote[n] # Nil
        /\ remote' = [remote EXCEPT ![n] = Nil]
        /\ UNCHANGED <<d, calls, diags, op, mapVars>>

Next ==
    \/ Plan
    \/ Reject
    \/ Import
    \/ Create
    \/ Read
    \/ Delete
    \/ OutOfBandPut
    \/ OutOfBandDelete

Spec == Init /\ [][Next]_vars

----------------------------------------------------------------------------
(* The mapping layer on its own: a configuration is expanded and the        *)
(* request flattened back; a response is flattened, stored with d.Set and   *)
(* expanded again.                                                          *)

MinimumHealthyHostsBlocks ==
    {NoBlock} \cup {<<[type |-> t, value |-> v]>> :
                        t \in MinimumHealthyHostsTypes \cup {""}, v \in Vals}
TimeBasedBlocks ==
    {NoBlock} \cup {<<[interval |-> i, percentage |-> p]>> : i \in Vals, p \in Percents}
TrafficRoutingBlocks ==
    {NoBlock} \cup {<<[type |-> t, time_based_canary |-> c, time_based_linear |-> l]>> :
                        t \in TrafficRoutingTypes, c \in TimeBasedBlocks, l \in TimeBasedBlocks}
PerZoneBlocks ==
    {NoBlock} \cup {<<[type |-> t, value |-> v]>> :
                        t \in MinimumHealthyHostsPerZoneTypes, v \in Percents}
ZonalBlocks ==
    {NoBlock} \cup {<<[first_zone_monitor_duration_in_seconds |-> f,
                       minimum_healthy_hosts_per_zone |-> z,
                       monitor_duration_in_seconds |-> m]>> :
                        f \in Durations, z \in PerZoneBlocks, m \in Durations}

(* The configurations the schema accepts *)
ValidConfigs ==
    {x \in [minimum_healthy_hosts : MinimumHealthyHostsBlocks,
            traffic_routing_config : TrafficRoutingBlocks,
            zonal_config : ZonalBlocks] : resourceDeploymentConfig(x)}

(* The objects the API types can hold: every pointer may be nil *)
Optional(S) == {Nil} \cup {Ptr(v) : v \in S}
ApiMinimumHealthyHosts ==
    Optional([Type : MinimumHealthyHostsTypes, Value : Percents])
ApiTimeBasedCanary == Optional([CanaryInterval : Percents, CanaryPercentage : Percents])
ApiTimeBasedLinear == Optional([LinearInterval : Percents, LinearPercentage : Percents])
ApiTrafficRoutingConfig ==
    Optional([Type : TrafficRoutingTypes, TimeBasedCanary : ApiTimeBasedCanary,
              TimeBasedLinear : ApiTimeBasedLinear])
ApiMinimumHealthyHostsPerZone ==
    Optional([Type : MinimumHealthyHostsPerZoneTypes, Value : Percents])
ApiZonalConfig ==
    Optional([FirstZoneMonitorDurationInSeconds : Optional(Durations),
              MinimumHealthyHostsPerZone : ApiMinimumHealthyHostsPerZone,
              MonitorDurationInSeconds : Optional(Durations)])
ApiObjects ==
    [MinimumHealthyHosts : ApiMinimumHealthyHosts,
     TrafficRoutingConfig : ApiTrafficRoutingConfig,
     ZonalConfig : ApiZonalConfig]

ExpandAll(x) ==
    [MinimumHealthyHosts |-> expandMinimumHealthyHosts(x),
     TrafficRoutingConfig |-> expandTrafficRoutingConfig(x),
     ZonalConfig |-> expandZonalConfig(x)]

FlattenAll(y) ==
    [minimum_healthy_hosts |-> flattenMinimumHealthHosts(y.MinimumHealthyHosts),
     traffic_routing_config |-> flattenTrafficRoutingConfig(y.TrafficRoutingConfig),
     zonal_config |-> flattenZonalConfig(y.ZonalConfig)]

SetAll(f) ==
    [minimum_healthy_hosts |-> setMinimumHealthyHosts(f.minimum_healthy_hosts),
     traffic_routing_config |-> setTrafficRoutingConfig(f.traffic_routing_config),
     zonal_config |-> setZonalConfig(f.zonal_config)]

MapInit ==
    /\ LifecycleInit
    /\ mapR = NoObject
    /\ mapF = NoFlat
    /\ \/ mapPc = "config" /\ mapX \in ValidConfigs /\ mapY = NoObject
       \/ mapPc = "response" /\ mapX = NoConfig /\ mapY \in ApiObjects

Expand ==
    /\ mapPc = "config"
    /\ mapR' = ExpandAll(mapX)
    /\ mapPc' = "expanded"
    /\ UNCHANGED <<mapX, mapY, mapF, lifecycleVars>>

FlattenRequest ==
    /\ mapPc = "expanded"
    /\ mapF' = FlattenAll(mapR)
    /\ mapPc' = "configRoundTrip"
    /\ UNCHANGED <<mapX, mapY, mapR, lifecycleVars>>

FlattenResponse ==
    /\ mapPc = "response"
    /\ mapF' = FlattenAll(mapY)
    /\ mapPc' = IF mapF'.zonal_config.panic THEN "panicked" ELSE "flattened"
    /\ UNCHANGED <<mapX, mapY, mapR, lifecycleVars>>

Store ==
    /\ mapPc = "flattened"
    /\ mapX' = SetAll(mapF)
    /\ mapPc' = "stored"
    /\ UNCHANGED <<mapY, mapF, mapR, lifecycleVars>>

ExpandStored ==
    /\ mapPc = "stored"
    /\ mapR' = ExpandAll(mapX)
    /\ mapPc' = "responseRoundTrip"
    /\ UNCHANGED <<mapX, mapY, mapF, lifecycleVars>>

MapNext ==
    \/ Expand
    \/ FlattenRequest
    \/ FlattenResponse
    \/ Store
    \/ ExpandStored

MapSpec == MapInit /\ [][MapNext]_vars

----------------------------------------------------------------------------
(* Properties of the lifecycle callbacks (checked under Spec)               *)

GetNotFound(call) ==
    call.api = "get" /\ call.err = "DeploymentConfigDoesNotExistException"
GetFailed(call) == call.api = "get" /\ call.err = "ServiceError"
ErrorDiag(operation, name, err) ==
    <<[severity |-> "error", operation |-> operation, name |-> name, cause |-> err]>>

(* C1: when the get call of a read reports not-found, a read of a resource  *)
(* that is not new clears the id and returns no error, whatever the local    *)
(* state and id were; the read that create performs (the resource is new)    *)
(* returns an error and keeps the id create has set.                         *)
ReadNotFound ==
    /\ (op.name = "read" /\ GetNotFound(calls[1])) =>
           /\ d.id = ""
           /\ ~HasError(diags)
    /\ (op.name = "create" /\ Len(calls) = 2 /\ GetNotFound(calls[2])) =>
           /\ HasError(diags)
           /\ d.id = op.prior.deployment_config_name
           /\ d.id # ""

ReadNotFoundWitness ==
    /\ op.name = "create"
    /\ Len(calls) = 2
    /\ GetNotFound(calls[2])
    /\ d.id \in Names

(* C2: a create whose create call succeeds issues its get call by the name  *)
(* N it was given, and leaves the id and deployment_config_name equal to N; *)
(* a later read that finds the object keeps the id and sets                 *)
(* deployment_config_name to it.                                            *)
CreateAdoptsName ==
    /\ (op.name = "create" /\ calls[1].err = "") =>
           /\ calls[1].name = op.prior.deployment_config_name
           /\ Len(calls) = 2
           /\ calls[2].api = "get"
           /\ calls[2].name = op.prior.deployment_config_name
           /\ d.id = op.prior.deployment_config_name
           /\ d.deployment_config_name = op.prior.deployment_config_name
    /\ (op.name = "read" /\ op.fetched # Nil /\ ~op.panic) =>
           /\ d.id = op.prior.id
           /\ d.deployment_config_name = op.prior.id

CreateAdoptsNameWitness ==
    /\ op.name = "create"
    /\ Len(calls) = 2
    /\ calls[2].err = ""
    /\ op.fetched # Nil
    /\ d.id \in Names
    /\ d.deployment_config_id = IdOf(d.id)

(* C3: delete issues exactly one call, a delete keyed by the id; an error   *)
(* of that call, not-found included, comes back as one error naming the     *)
(* operation and the id; a success comes back with no diagnostics.          *)
DeleteOnce ==
    op.name = "delete" =>
        /\ Len(calls) = 1
        /\ calls[1].api = "delete"
        /\ calls[1].name = op.prior.id
        /\ (calls[1].err # "" => diags = ErrorDiag("deleting", op.prior.id, calls[1].err))
        /\ (calls[1].err = "" => diags = NoDiags)

DeleteOnceWitness ==
    /\ op.name = "delete"
    /\ calls[1].err = "DeploymentConfigDoesNotExistException"
    /\ HasError(diags)

(* C6: no create request carries both TimeBasedCanary and TimeBasedLinear,  *)
(* and a rejected configuration has caused no call.                         *)
NoConflictingCreate ==
    /\ \A i \in 1..Len(calls) :
           (calls[i].api = "create" /\ Deref(calls[i].input).TrafficRoutingConfig # Nil) =>
               ~(/\ Deref(Deref(calls[i].input).TrafficRoutingConfig).TimeBasedCanary # Nil
                 /\ Deref(Deref(calls[i].input).TrafficRoutingConfig).TimeBasedLinear # Nil)
    /\ (op.name = "reject" => calls = <<>>)

NoConflictingCreateWitness ==
    /\ op.name = "reject"
    /\ HasError(diags)
    /\ calls = <<>>

(* C7: a create whose create call fails returns an error, leaves the        *)
(* ResourceData as it was handed (id unset, no field written) and issues no *)
(* get call; after a create the id is set only if the create call succeeded *)
CreateFailureLeavesNothing ==
    /\ (op.name = "create" /\ calls[1].err # "") =>
           /\ HasError(diags)
           /\ d = op.prior
           /\ d.id = ""
           /\ Len(calls) = 1
    /\ (op.name = "create" /\ d.id # "") => calls[1].err = ""

CreateFailureLeavesNothingWitness ==
    /\ op.name = "create"
    /\ calls[1].err = "DeploymentConfigAlreadyExistsException"
    /\ d.id = ""
    /\ d.deployment_config_name \in Names

(* What the attributes are after a full refresh from info *)
AttributesOf(info) ==
    [compute_platform |-> info.ComputePlatform,
     deployment_config_id |-> info.DeploymentConfigId,
     deployment_config_name |-> info.DeploymentConfigName,
     minimum_healthy_hosts |->
         IF info.MinimumHealthyHosts = Nil THEN <<>>
         ELSE <<[type |-> info.MinimumHealthyHosts[1].Type,
                 value |-> info.MinimumHealthyHosts[1].Value]>>,
     traffic_routing_config |->
         IF info.TrafficRoutingConfig = Nil THEN <<>>
         ELSE <<[type |-> info.TrafficRoutingConfig[1].Type,
                 time_based_canary |->
                     IF info.TrafficRoutingConfig[1].TimeBasedCanary = Nil THEN <<>>
                     ELSE <<[interval |->
                                 info.TrafficRoutingConfig[1].TimeBasedCanary[1].CanaryInterval,
                             percentage |->
                                 info.TrafficRoutingConfig[1].TimeBasedCanary[1].CanaryPercentage]>>,
                 time_based_linear |->
                     IF info.TrafficRoutingConfig[1].TimeBasedLinear = Nil THEN <<>>
                     ELSE <<[interval |->
                                 info.TrafficRoutingConfig[1].TimeBasedLinear[1].LinearInterval,
                             percentage |->
                                 info.TrafficRoutingConfig[1].TimeBasedLinear[1].LinearPercentage]>>]>>,
     zonal_config |->
         IF info.ZonalConfig = Nil THEN <<>>
         ELSE <<[first_zone_monitor_duration_in_seconds |->
                     IF info.ZonalConfig[1].FirstZoneMonitorDurationInSeconds = Nil THEN 0
                     ELSE info.ZonalConfig[1].FirstZoneMonitorDurationInSeconds[1],
                 minimum_healthy_hosts_per_zone |->
                     IF info.ZonalConfig[1].MinimumHealthyHostsPerZone = Nil THEN <<>>
                     ELSE <<[type |-> info.ZonalConfig[1].MinimumHealthyHostsPerZone[1].Type,
                             value |-> info.ZonalConfig[1].MinimumHealthyHostsPerZone[1].Value]>>,
                 monitor_duration_in_seconds |->
                     IF info.ZonalConfig[1].MonitorDurationInSeconds = Nil THEN 0
                     ELSE info.ZonalConfig[1].MonitorDurationInSeconds[1]]>>]

Attributes(dd) ==
    [compute_platform |-> dd.compute_platform,
     deployment_config_id |-> dd.deployment_config_id,
     deployment_config_name |-> dd.deployment_config_name,
     minimum_healthy_hosts |-> dd.minimum_healthy_hosts,
     traffic_routing_config |-> dd.traffic_routing_config,
     zonal_config |-> dd.zonal_config]

(* C8: after a successful read that found the remote object (the callback  *)
(* read, or the read inside create) every attribute is the fetched          *)
(* object's: the attributes are a function of the fetched object alone,     *)
(* whatever they were before, and a block absent remotely is absent.        *)
ReadOverwritesAll ==
    (op.name \in {"read", "create"} /\ op.fetched # Nil /\ ~op.panic) =>
        Attributes(d) = AttributesOf(Deref(op.fetched))

ReadOverwritesAllWitness ==
    /\ op.name = "read"
    /\ op.fetched # Nil
    /\ ~op.panic
    /\ op.prior.zonal_config # NoBlock
    /\ Deref(op.fetched).ZonalConfig = Nil
    /\ d.zonal_config = NoBlock

(* C9: a read whose get call fails with an error other than not-found       *)
(* returns an error, leaves the id and every attribute as they were, and    *)
(* issues no other call; so does the read inside create, where the id is    *)
(* the name create has just set.                                            *)
ReadErrorLeavesState ==
    /\ (op.name = "read" /\ GetFailed(calls[1])) =>
           /\ HasError(diags)
           /\ d = op.prior
           /\ Len(calls) = 1
    /\ (op.name = "create" /\ Len(calls) = 2 /\ GetFailed(calls[2])) =>
           /\ HasError(diags)
           /\ d = [op.prior EXCEPT !.id = op.prior.deployment_config_name]
           /\ \A i \in 3..Len(calls) : FALSE

ReadErrorLeavesStateWitness ==
    /\ op.name = "read"
    /\ GetFailed(calls[1])
    /\ d.id \in Names
    /\ d.deployment_config_id # ""

----------------------------------------------------------------------------
(* Properties of the mapping layer (checked under MapSpec)                  *)

ListSlice(list) == [panic |-> FALSE, isNil |-> FALSE, items |-> list]

(* A configuration as flatten would have to return it to give it back field *)
(* for field: every block a non-nil slice, but an absent zonal config nil.  *)
FieldForField(x) ==
    [minimum_healthy_hosts |-> ListSlice(x.minimum_healthy_hosts),
     traffic_routing_config |->
         IF x.traffic_routing_config = NoBlock THEN EmptySlice
         ELSE ListSlice(<<[type |-> x.traffic_routing_config[1].type,
                           time_based_canary |->
                               ListSlice(x.traffic_routing_config[1].time_based_canary),
                           time_based_linear |->
                               ListSlice(x.traffic_routing_config[1].time_based_linear)]>>),
     zonal_config |->
         IF x.zonal_config = NoBlock THEN NilSlice
         ELSE ListSlice(<<[first_zone_monitor_duration_in_seconds |->
                               x.zonal_config[1].first_zone_monitor_duration_in_seconds,
                           minimum_healthy_hosts_per_zone |->
                               ListSlice(x.zonal_config[1].minimum_healthy_hosts_per_zone),
                           monitor_duration_in_seconds |->
                               x.zonal_config[1].monitor_duration_in_seconds]>>)]

(* C4: flatten(expand(x)) gives x back field for field, an absent zonal     *)
(* config as nil being the only exception, and expand(flatten(y)) gives     *)
(* every API object y back.                                                 *)
RoundTrip ==
    /\ mapPc = "configRoundTrip" => mapF = FieldForField(mapX)
    /\ mapPc # "panicked"
    /\ mapPc = "responseRoundTrip" => mapR = mapY

Flattened == mapPc \in {"configRoundTrip", "flattened", "stored", "responseRoundTrip", "panicked"}
FlattenInput == IF mapPc = "configRoundTrip" THEN mapR ELSE mapY

FlattenAbsentOthers ==
    /\ FlattenInput.MinimumHealthyHosts = Nil => mapF.minimum_healthy_hosts = EmptySlice
    /\ FlattenInput.TrafficRoutingConfig = Nil => mapF.traffic_routing_config = EmptySlice
    /\ (/\ FlattenInput.TrafficRoutingConfig # Nil
        /\ Deref(FlattenInput.TrafficRoutingConfig).TimeBasedCanary = Nil) =>
           mapF.traffic_routing_config.items[1].time_based_canary = EmptySlice
    /\ (/\ FlattenInput.TrafficRoutingConfig # Nil
        /\ Deref(FlattenInput.TrafficRoutingConfig).TimeBasedLinear = Nil) =>
           mapF.traffic_routing_config.items[1].time_based_linear = EmptySlice
    /\ FlattenInput.ZonalConfig = Nil => mapF.zonal_config = NilSlice

PerZoneAbsent ==
    /\ FlattenInput.ZonalConfig # Nil
    /\ ~mapF.zonal_config.panic
    /\ Deref(FlattenInput.ZonalConfig).MinimumHealthyHostsPerZone = Nil

(* C5 as stated: on absent input flattenZonalConfig returns nil and every   *)
(* other flatten function, the per-zone one included, returns an empty      *)
(* non-nil sequence.                                                        *)
OnlyZonalFlattensToNil ==
    Flattened =>
        /\ FlattenAbsentOthers
        /\ PerZoneAbsent =>
               mapF.zonal_config.items[1].minimum_healthy_hosts_per_zone = EmptySlice

(* C5 amended: on absent input flattenZonalConfig and                       *)
(* flattenMinimumHealthHostsPerZone return nil; the flatten functions of    *)
(* minimum healthy hosts, traffic routing config, time-based canary and     *)
(* time-based linear return an empty non-nil sequence; none fails.          *)
ZonalAndPerZoneFlattenToNil ==
    Flattened =>
        /\ FlattenAbsentOthers
        /\ PerZoneAbsent =>
               mapF.zonal_config.items[1].minimum_healthy_hosts_per_zone = NilSlice

ZonalAndPerZoneFlattenToNilWitness ==
    /\ mapPc = "flattened"
    /\ mapY.MinimumHealthyHosts = Nil
    /\ mapY.TrafficRoutingConfig = Nil
    /\ PerZoneAbsent
    /\ mapF.zonal_config.items[1].minimum_healthy_hosts_per_zone.isNil
    /\ ~mapF.minimum_healthy_hosts.isNil

Records(present, slice) ==
    /\ ~slice.panic
    /\ Len(slice.items) = IF present THEN 1 ELSE 0

(* C10: every flatten function returns for every API object: one record    *)
(* for a present object, whichever of its optional fields are absent, and   *)
(* none for an absent object.                                               *)
FlattenTotal ==
    Flattened =>
        /\ Records(FlattenInput.MinimumHealthyHosts # Nil, mapF.minimum_healthy_hosts)
        /\ Records(FlattenInput.TrafficRoutingConfig # Nil, mapF.traffic_routing_config)
        /\ Records(FlattenInput.ZonalConfig # Nil, mapF.zonal_config)

====
